---- MODULE Spec2Model ----
(***************************************************************************)
(* A model of the glue code of compas_fea:                                 *)
(*   fea/opensees/opensees.py : input_generate, launch_process,            *)
(*                              extract_data                               *)
(*   cad/rhino.py             : add_element_set, add_node_set,             *)
(*                              add_nodes_elements_from_layers,            *)
(*                              add_sets_from_layers, plot_mode_shapes     *)
(* Each function is a small state machine over its own variables; the      *)
(* variables of the other functions stay at their idle values.             *)
(*                                                                         *)
(* Conventions.  Python None is the string "None".  A Python list is a     *)
(* sequence.  A Python dict is a function whose DOMAIN is its key set.     *)
(* A Python str that the code takes apart or builds (layer names) is a     *)
(* sequence of one-character strings.  Floats read from the solver's       *)
(* output are integers, and sqrt is the integer square root.               *)
(***************************************************************************)
EXTENDS Integers, Sequences, FiniteSets, TLC

None == "None"

VARIABLES
    x_pc,        \* "idle" | "start" | "fields" | "done" | "raised"
    x_fields,    \* the `fields` argument
    x_n,         \* structure.node_count()
    x_loads,     \* the loads of step steps_order[1], resolved to records
    x_i,         \* number of entries of `fields` already processed
    nodal,       \* results['nodal']
    element,     \* results['element']
    x_out,       \* what was printed, one entry per message
    x_exc,       \* per processed field, the exception its try block raised
    p_pc,        \* "idle" | "start" | "done": one nodal try block on its own
    p_field,     \* its field
    p_n,         \* its node count
    p_file,      \* the file it opens
    p_res        \* its outcome, [exc, nodal]

xvars == <<x_pc, x_fields, x_n, x_loads, x_i, nodal, element, x_out, x_exc>>

pvars == <<p_pc, p_field, p_n, p_file, p_res>>

VARIABLES
    l_pc,        \* "idle" | "stat" | "mkdir" | "popen" | "readline" |
                 \* "communicate" | "toc" | "done" | "raised"
    l_exe,       \* the `exe` argument
    l_output,    \* the `output` argument
    l_fs,        \* <path><name>/ on disk: "absent" | "dir" | "file"
    l_mkdir_ok,  \* whether os.mkdir can create it
    l_fault,     \* the call the environment makes fail, or "none"
    l_started,   \* how many times Popen started the solver
    l_command,   \* the command of the last Popen
    l_cwd,       \* the cwd of the last Popen
    l_cwd_state, \* l_fs at the moment of the last Popen
    l_mkdirs,    \* how many times os.mkdir was called
    l_out,       \* what was printed
    solver_pc,   \* the solver: "none" | "running" | "exited"
    solver_script, \* the writes the solver still has to do: "out" | "err"
    stdout,      \* lines in the stdout pipe
    stderr       \* lines in the stderr pipe

lvars == <<l_pc, l_exe, l_output, l_fs, l_mkdir_ok, l_fault, l_started,
           l_command, l_cwd, l_cwd_state, l_mkdirs, l_out, solver_pc, solver_script,
           stdout, stderr>>

VARIABLES
    g_pc,        \* input_generate: "idle" | "ndof" | "enter" | "write" |
                 \* "exit" | "print" | "done" | "raised"
    g_elements,  \* element.__name__ of structure.elements.values()
    g_ndof,      \* ndof handed to the Writer
    g_k,         \* number of write_* calls that have returned
    g_written,   \* the sections in the .tcl file, in file order
    g_writer,    \* "none" | "open" | "closed"
    g_fault,     \* the write_* call that raises (1..6), or 0 for none
    g_out        \* what was printed

gvars == <<g_pc, g_elements, g_ndof, g_k, g_written, g_writer, g_fault, g_out>>

VARIABLES
    m_pc,        \* plot_mode_shapes: "idle" | "loop" | "done" | "raised"
    m_layer,     \* the `layer` argument
    m_scale,     \* the `scale` argument
    m_freq,      \* the keys of structure.results[step]['frequencies'], in
                 \* iteration order
    m_i,         \* number of keys already plotted
    m_calls      \* the calls of plot_data, in order

mvars == <<m_pc, m_layer, m_scale, m_freq, m_i, m_calls>>

VARIABLES
    s_pc,        \* add_sets_from_layers: "idle" | "start" | "loop" | "done"
    s_arg,       \* the `layers` argument as passed
    s_layers,    \* `layers` after line 199
    s_explode,   \* the `explode` argument
    s_struct,    \* the structure's nodes and elements
    s_i,         \* number of layers already processed
    sets,        \* structure.sets
    s_ncalls,    \* number of add_set calls so far
    s_nonempty,  \* number of processed layers that held an object
    s_last,      \* the layer and guids of the last pass of the loop
    s_prev       \* structure.sets before that pass

svars == <<s_pc, s_arg, s_layers, s_explode, s_struct, s_i, sets, s_ncalls,
           s_nonempty, s_last, s_prev>>

VARIABLES
    a_pc,        \* add_nodes_elements_from_layers: "idle" | "start" |
                 \* "layer" | "guid" | "done"
    a_arg,       \* the `layers` argument as passed
    a_layers,    \* `layers` after line 150
    a_line_type, \* the `line_type` argument
    a_mesh_type, \* the `mesh_type` argument
    a_flags,     \* the `acoustic` and `thermal` arguments
    a_li,        \* number of layers whose objects have been fetched
    a_guids,     \* rs.ObjectsByLayer(layer) of the current layer
    a_gi,        \* number of its objects already processed
    a_nodes,     \* the structure's nodes: xyz by node key
    a_elems,     \* the structure's elements, in the order they were added
    a_prev       \* nodes and elements before the last object was processed

avars == <<a_pc, a_arg, a_layers, a_line_type, a_mesh_type, a_flags, a_li,
           a_guids, a_gi, a_nodes, a_elems, a_prev>>

vars == <<xvars, pvars, lvars, gvars, mvars, svars, avars>>

\* the variables a function does not touch
not_x == <<pvars, lvars, gvars, mvars, svars, avars>>

not_p == <<xvars, lvars, gvars, mvars, svars, avars>>

not_l == <<xvars, pvars, gvars, mvars, svars, avars>>

not_g == <<xvars, pvars, lvars, mvars, svars, avars>>

not_m == <<xvars, pvars, lvars, gvars, svars, avars>>

not_s == <<xvars, pvars, lvars, gvars, mvars, avars>>

not_a == <<xvars, pvars, lvars, gvars, mvars, svars>>


\* ---------------------------------------------------------------- bounds
MaxNodes  == 2      \* structure.node_count() ranges over 0..MaxNodes
MaxFields == 2      \* the `fields` list has at most this many entries
MaxSeed   == 1      \* first value of an output line ranges over 0..MaxSeed

\* ------------------------------------------------------------- utilities
Last(s) == s[Len(s)]

Range(s) == {s[i] : i \in DOMAIN s}

SeqsUpTo(S, n) == UNION {[1..k -> S] : k \in 0..n}

\* d[k] = v on a Python dict
DictSet(d, k, v) == [x \in (DOMAIN d) \cup {k} |-> IF x = k THEN v ELSE d[x]]

EmptyDict == [x \in {} |-> 0]

Min(a, b) == IF a < b THEN a ELSE b

\* math.sqrt on the integer abstraction of floats
sqrt(s) == CHOOSE r \in 0..s : r * r <= s /\ s < (r + 1) * (r + 1)

(***************************************************************************)
(*                             extract_data                                *)
(***************************************************************************)
\* A file is [exists, lines]: open() raises IOError when exists is FALSE.
MISSING == [exists |-> FALSE, lines |-> <<>>]

File(lines) == [exists |-> TRUE, lines |-> lines]

\* A token is [num, val]: float() raises ValueError when num is FALSE (the ''
\* that split(' ') yields between two spaces, or a non-numeric word).
BAD == [num |-> FALSE, val |-> 0]

Num(v) == [num |-> TRUE, val |-> v]

NodalFields == {"u", "ur", "rf", "rm"}
Fields      == NodalFields \cup {"sf", "s"}

\* One line of a .out file as line.split(' ') sees it: the first token (the
\* time), then `len` values seed+1, seed+2, ...; with bad > 0 the token at
\* position bad of the values is one float() rejects.
MkLine(seed, len, bad) ==
    <<Num(seed)>> \o [k \in 1..len |-> IF k = bad THEN BAD ELSE Num(seed + k)]

Lines == {MkLine(s, l, b) : s \in 0..MaxSeed, l \in 0..(3 * MaxNodes + 1),
                            b \in {0, 1}}
       \cup {MkLine(s, l, l) : s \in 0..MaxSeed, l \in 1..(3 * MaxNodes + 1)}

\* Earlier lines of a file (earlier time steps)
EarlierLines == {MkLine(MaxSeed + 1, 3 * MaxNodes, 0), MkLine(MaxSeed + 1, 1, 1)}

\* f.readlines(): absent file, empty file, one line, two lines
Files == {MISSING, File(<<>>)} \cup {File(<<l>>) : l \in Lines}
         \cup {File(<<e, l>>) : e \in EarlierLines, l \in Lines}

\* The files extract_data meets for a structure of n nodes: absent, empty,
\* the expected 3n values, one value less, a token float() rejects at the
\* end of the line, and a file of two time steps.
FilesFor(n) ==
    {MISSING, File(<<>>)}
    \cup {File(<<MkLine(0, 3 * n, 0)>>), File(<<MkLine(0, 3 * n + 1, 3 * n + 1)>>)}
    \cup {File(<<MkLine(0, 3 * n - 1, 0)>>) : k \in 1..Min(n, 1)}
    \cup {File(<<e, MkLine(0, 3 * n, 0)>>) : e \in EarlierLines}

\* json.load(f)['truss_ekeys']
EkeyFiles == {MISSING, File(<<>>), File(<<5>>), File(<<5, 7>>)}

\* (a reader that takes the first line of the file instead of the last)
ReadLastLineFirst(file) ==
    IF ~file.exists THEN [exc |-> "IOError", data |-> <<>>]
    ELSE IF Len(file.lines) = 0 THEN [exc |-> "IndexError", data |-> <<>>]
    ELSE LET toks == Tail(file.lines[1]) IN
         IF \E k \in DOMAIN toks : ~toks[k].num
         THEN [exc |-> "ValueError", data |-> <<>>]
         ELSE [exc |-> None, data |-> [k \in DOMAIN toks |-> toks[k].val]]

\* lines 202-204 / 232-234: open, readlines, float() of the tokens after
\* the first of the last line.  [exc, data]
ReadLastLine(file) ==
    IF ~file.exists THEN [exc |-> "IOError", data |-> <<>>]
    ELSE IF Len(file.lines) = 0 THEN [exc |-> "IndexError", data |-> <<>>]
    ELSE LET toks == Tail(Last(file.lines)) IN
         IF \E k \in DOMAIN toks : ~toks[k].num
         THEN [exc |-> "ValueError", data |-> <<>>]
         ELSE [exc |-> None, data |-> [k \in DOMAIN toks |-> toks[k].val]]

\* data[start::3]
Slice3(data, start) ==
    IF Len(data) <= start THEN <<>>
    ELSE [k \in 1..((Len(data) - start + 2) \div 3) |-> data[start + 3 * (k - 1) + 1]]

\* [sqrt(u**2 + v**2 + w**2) for u, v, w in zip(dofx, dofy, dofz)]
Magnitudes(dofx, dofy, dofz) ==
    [k \in 1..Min(Len(dofx), Min(Len(dofy), Len(dofz))) |->
        sqrt(dofx[k] * dofx[k] + dofy[k] * dofy[k] + dofz[k] * dofz[k])]

\* {i: dof[i] for i in nodes}: IndexError when dof is shorter than nodes
NodeDict(dof, n) == [i \in 0..(n - 1) |-> dof[i + 1]]

\* lines 200-216, the try block of a nodal field: the four assignments run in
\* order and the first that raises leaves the earlier ones in place.
NodalTry(nd, field, file, n) ==
    LET r    == ReadLastLine(file)
        dofx == Slice3(r.data, 0)
        dofy == Slice3(r.data, 1)
        dofz == Slice3(r.data, 2)
        dofm == Magnitudes(dofx, dofy, dofz)
        n1   == DictSet(nd, <<field, "x">>, NodeDict(dofx, n))
        n2   == DictSet(n1, <<field, "y">>, NodeDict(dofy, n))
        n3   == DictSet(n2, <<field, "z">>, NodeDict(dofz, n))
        n4   == DictSet(n3, <<field, "m">>, NodeDict(dofm, n))
    IN  IF r.exc # None THEN [exc |-> r.exc, nodal |-> nd]
        ELSE IF Len(dofx) < n THEN [exc |-> "IndexError", nodal |-> nd]
        ELSE IF Len(dofy) < n THEN [exc |-> "IndexError", nodal |-> n1]
        ELSE IF Len(dofz) < n THEN [exc |-> "IndexError", nodal |-> n2]
        ELSE IF Len(dofm) < n THEN [exc |-> "IndexError", nodal |-> n3]
        ELSE [exc |-> None, nodal |-> n4]

\* lines 228-242, the try block of 'sf': element['sf1'] is reset first, then
\* both files are read, then zip(truss_ekeys, data) fills it.
TrussTry(el, file, ekeys) ==
    LET e0 == DictSet(el, "sf1", EmptyDict)
        r  == ReadLastLine(file)
        ks == ekeys.lines
        m  == Min(Len(ks), Len(r.data))
        sf == [k \in {ks[j] : j \in 1..m} |->
                 [ip |-> r.data[CHOOSE j \in 1..m : ks[j] = k
                                   /\ \A j2 \in 1..m : ks[j2] = k => j2 <= j]]]
    IN  IF r.exc # None THEN [exc |-> r.exc, element |-> e0]
        ELSE IF ~ekeys.exists THEN [exc |-> "IOError", element |-> e0]
        ELSE [exc |-> None, element |-> DictSet(e0, "sf1", sf)]

\* (a handler written `except ValueError:`)
CaughtOnlyValueError(exc) == exc = "ValueError"

\* the bare `except:` of lines 218 and 244 catches every exception
Caught(exc) == TRUE

\* lines 171-188: the loads of the step.  A load is [name, nodes, com] with
\* nodes a list of node lists.
PointLoadOn(nd, ni, com) ==
    LET a == DictSet(nd, <<"cf", "x">>, [nd[<<"cf", "x">>] EXCEPT ![ni] = @ + com.x])
        b == DictSet(a, <<"cf", "y">>, [a[<<"cf", "y">>] EXCEPT ![ni] = @ + com.y])
        c == DictSet(b, <<"cf", "z">>, [b[<<"cf", "z">>] EXCEPT ![ni] = @ + com.z])
        d == DictSet(c, <<"cm", "x">>, [c[<<"cm", "x">>] EXCEPT ![ni] = @ + com.xx])
        e == DictSet(d, <<"cm", "y">>, [d[<<"cm", "y">>] EXCEPT ![ni] = @ + com.yy])
    IN  DictSet(e, <<"cm", "z">>, [e[<<"cm", "z">>] EXCEPT ![ni] = @ + com.zz])

RECURSIVE ApplyNodes(_, _, _)
ApplyNodes(nd, ns, com) ==
    IF ns = <<>> THEN nd
    ELSE ApplyNodes(PointLoadOn(nd, Head(ns), com), Tail(ns), com)

RECURSIVE ApplyLoads(_, _)
ApplyLoads(nd, loads) ==
    IF loads = <<>> THEN nd
    ELSE LET load == Head(loads) IN
         ApplyLoads(IF load.name = "PointLoad"
                    THEN ApplyNodes(nd, load.nodes, load.com) ELSE nd,
                    Tail(loads))

Com1 == [x |-> 1, y |-> 0, z |-> 2, xx |-> 0, yy |-> 3, zz |-> 0]

\* The loads a step can hold for a structure of n nodes
LoadCases(n) ==
    {<<>>, <<[name |-> "GravityLoad", nodes |-> <<>>, com |-> Com1]>>}
    \cup {<<[name |-> "PointLoad", nodes |-> <<0, n - 1>>, com |-> Com1]>> : k \in 1..Min(n, 1)}

\* lines 165-169
ZeroLoads(n) ==
    [k \in {<<"cf", "x">>, <<"cf", "y">>, <<"cf", "z">>, <<"cm", "x">>, <<"cm", "y">>, <<"cm", "z">>} |-> [i \in 0..(n - 1) |-> 0]]

x_Idle ==
    /\ x_pc = "idle" /\ x_fields = <<>> /\ x_n = 0 /\ x_loads = <<>> /\ x_i = 0
    /\ nodal = EmptyDict /\ element = EmptyDict /\ x_out = <<>> /\ x_exc = <<>>

p_Idle ==
    /\ p_pc = "idle" /\ p_field = "u" /\ p_n = 0 /\ p_file = MISSING
    /\ p_res = [exc |-> None, nodal |-> EmptyDict]

extract_data_Init ==
    /\ x_pc = "start"
    /\ x_fields \in SeqsUpTo(Fields, MaxFields)
    /\ x_n \in 0..MaxNodes
    /\ x_loads \in LoadCases(x_n)
    /\ x_i = 0
    /\ nodal = EmptyDict /\ element = EmptyDict /\ x_out = <<>> /\ x_exc = <<>>

\* lines 152-188
extract_data_loads ==
    /\ x_pc = "start"
    /\ nodal' = ApplyLoads(ZeroLoads(x_n), x_loads)
    /\ x_pc' = "fields"
    /\ UNCHANGED <<x_fields, x_n, x_loads, x_i, element, x_out, x_exc>>
    /\ UNCHANGED not_x

\* lines 192-246, one pass of `for field in fields`; file and ekeys are what
\* the pass finds on disk (a pass that opens no file is given none)
extract_data_field(file, ekeys) ==
    /\ x_pc = "fields"
    /\ x_i < Len(x_fields)
    /\ x_fields[x_i + 1] # "sf" => ekeys = MISSING
    /\ x_fields[x_i + 1] \notin NodalFields \cup {"sf"} => file = MISSING
    /\ LET field == x_fields[x_i + 1]
           nt    == NodalTry(nodal, field, file, x_n)
           tt    == TrussTry(element, file, ekeys)
           exc   == IF field \in NodalFields THEN nt.exc
                    ELSE IF field = "sf" THEN tt.exc ELSE None
       IN  /\ nodal' = IF field \in NodalFields THEN nt.nodal ELSE nodal
           /\ element' = IF field = "sf" THEN tt.element ELSE element
           /\ x_exc' = Append(x_exc, exc)
           /\ IF exc # None /\ ~Caught(exc)
              THEN x_pc' = "raised" /\ x_out' = x_out /\ x_i' = x_i
              ELSE /\ x_pc' = x_pc
                   /\ x_i' = x_i + 1
                   /\ x_out' = IF field \in NodalFields
                               THEN Append(x_out, <<field, IF exc = None THEN "loaded" ELSE "not loaded">>)
                               ELSE IF field = "sf"
                               THEN Append(x_out, <<field, IF exc = None THEN "loaded" ELSE "no truss">>)
                               ELSE x_out
    /\ UNCHANGED <<x_fields, x_n, x_loads>>
    /\ UNCHANGED not_x

\* line 285
extract_data_return ==
    /\ x_pc = "fields"
    /\ x_i = Len(x_fields)
    /\ x_pc' = "done"
    /\ x_out' = Append(x_out, <<"extracted", "time">>)
    /\ UNCHANGED <<x_fields, x_n, x_loads, x_i, nodal, element, x_exc>>
    /\ UNCHANGED not_x

extract_data_Next ==
    \/ extract_data_loads
    \/ \E file \in FilesFor(x_n), ekeys \in EkeyFiles : extract_data_field(file, ekeys)
    \/ extract_data_return

\* The try block of one nodal field on its own: lines 200-216 applied to a
\* file, a field and a node count, starting from the zeroed load entries.
nodal_try_Init ==
    /\ p_pc = "start"
    /\ p_field \in NodalFields
    /\ p_n \in 0..MaxNodes
    /\ p_file \in Files
    /\ p_res = [exc |-> None, nodal |-> ZeroLoads(p_n)]

nodal_try ==
    /\ p_pc = "start"
    /\ p_res' = NodalTry(p_res.nodal, p_field, p_file, p_n)
    /\ p_pc' = "done"
    /\ UNCHANGED <<p_field, p_n, p_file>>
    /\ UNCHANGED not_p

(***************************************************************************)
(*                            launch_process                               *)
(* The caller's thread and the solver it starts.  The solver writes lines  *)
(* to two pipes of PipeCap lines each; a write to a full pipe blocks.      *)
(***************************************************************************)
PipeCap   == 2      \* lines a pipe holds before a write to it blocks
MaxWrites == 3      \* lines the solver writes in all

DefaultExe == "C:/OpenSees.exe"

\* '{0}{1}/'.format(path, name) and '{0}{1}.tcl'.format(path, name)
Temp == "<path><name>/"

TclFile == "<path><name>.tcl"

\* truth value of a Python str or None
Truthy(v) == v # None /\ v # ""

\* lines 102-105
Command(exe) == [exe |-> IF ~Truthy(exe) THEN DefaultExe ELSE exe, arg |-> TclFile]

\* (an except branch that does nothing)
MkdirSkipped(fs) == fs

\* line 98: os.mkdir(temp) on a path that can be created
Mkdir(fs) == "dir"

\* (a handler written `except OSError:`)
LaunchCaughtOnlyOSError(exc) == exc = "OSError"

\* line 130: the bare `except:` around the whole body
LaunchCaught(exc) == TRUE

\* lines 130-132: an exception raised in the try body
LaunchRaise(exc) ==
    IF LaunchCaught(exc)
    THEN l_pc' = "done" /\ l_out' = Append(l_out, "failed")
    ELSE l_pc' = "raised" /\ l_out' = l_out

l_Idle ==
    /\ l_pc = "idle" /\ l_exe = None /\ l_output = FALSE /\ l_fs = "dir"
    /\ l_mkdir_ok = TRUE /\ l_fault = "none" /\ l_started = 0
    /\ l_command = Command(None) /\ l_cwd = None /\ l_cwd_state = None
    /\ l_mkdirs = 0 /\ l_out = <<>> /\ solver_pc = "none" /\ solver_script = <<>>
    /\ stdout = 0 /\ stderr = 0

launch_process_Init ==
    /\ l_pc = "stat"
    /\ l_exe \in {None, "", "/usr/bin/OpenSees"}
    /\ l_output \in BOOLEAN
    /\ l_fs \in {"absent", "dir", "file"}
    /\ l_mkdir_ok \in BOOLEAN
    /\ l_fault \in {"none", "stat", "popen", "readline", "communicate"}
    /\ l_started = 0
    /\ l_command = Command(None) /\ l_cwd = None /\ l_cwd_state = None
    /\ l_mkdirs = 0 /\ l_out = <<>>
    /\ solver_pc = "none"
    /\ solver_script \in SeqsUpTo({"out", "err"}, MaxWrites)
    /\ stdout = 0 /\ stderr = 0

\* lines 95-97: os.stat(temp)
launch_stat ==
    /\ l_pc = "stat"
    /\ l_pc' = IF l_fs = "absent" \/ l_fault = "stat" THEN "mkdir" ELSE "popen"
    /\ UNCHANGED <<l_exe, l_output, l_fs, l_mkdir_ok, l_fault, l_started,
                   l_command, l_cwd, l_cwd_state, l_mkdirs, l_out, solver_pc,
                   solver_script, stdout, stderr>>
    /\ UNCHANGED not_l

\* line 98: os.mkdir(temp) in the except branch; it raises when the path
\* exists already or cannot be created
launch_mkdir ==
    /\ l_pc = "mkdir"
    /\ l_mkdirs' = l_mkdirs + 1
    /\ IF l_fs = "absent" /\ l_mkdir_ok
       THEN l_fs' = Mkdir(l_fs) /\ l_pc' = "popen" /\ l_out' = l_out
       ELSE l_fs' = l_fs /\ LaunchRaise("OSError")
    /\ UNCHANGED <<l_exe, l_output, l_mkdir_ok, l_fault, l_started, l_command,
                   l_cwd, l_cwd_state, solver_pc, solver_script, stdout, stderr>>
    /\ UNCHANGED not_l

\* lines 100-108: Popen(command, cwd=temp, shell=True) raises when cwd is not
\* a directory or the shell cannot be started
launch_popen ==
    /\ l_pc = "popen"
    /\ IF l_fs = "dir" /\ l_fault # "popen"
       THEN /\ l_started' = l_started + 1
            /\ l_command' = Command(l_exe)
            /\ l_cwd' = Temp
            /\ l_cwd_state' = l_fs
            /\ solver_pc' = "running"
            /\ l_pc' = "readline"
            /\ l_out' = Append(l_out, "executing")
       ELSE /\ LaunchRaise("OSError")
            /\ UNCHANGED <<l_started, l_command, l_cwd, l_cwd_state, solver_pc>>
    /\ UNCHANGED <<l_exe, l_output, l_fs, l_mkdir_ok, l_fault, l_mkdirs,
                   solver_script, stdout, stderr>>
    /\ UNCHANGED not_l

\* lines 110-118: p.stdout.readline() returns a line when the pipe holds one
\* and '' once the pipe is empty and the solver has exited; else it blocks
launch_readline ==
    /\ l_pc = "readline"
    /\ \/ /\ l_fault = "readline"
          /\ LaunchRaise("IOError")
          /\ UNCHANGED stdout
       \/ /\ l_fault # "readline"
          /\ stdout > 0
          /\ stdout' = stdout - 1
          /\ l_pc' = l_pc
          /\ l_out' = IF l_output THEN Append(l_out, "line") ELSE l_out
       \/ /\ l_fault # "readline"
          /\ stdout = 0 /\ solver_pc = "exited"
          /\ l_pc' = "communicate"
          /\ UNCHANGED <<stdout, l_out>>
    /\ UNCHANGED <<l_exe, l_output, l_fs, l_mkdir_ok, l_fault, l_started,
                   l_command, l_cwd, l_cwd_state, l_mkdirs, solver_pc, solver_script,
                   stderr>>
    /\ UNCHANGED not_l

\* lines 120-124: p.communicate() reads what is left in both pipes and waits
launch_communicate ==
    /\ l_pc = "communicate"
    /\ IF l_fault = "communicate"
       THEN LaunchRaise("ValueError") /\ UNCHANGED <<stdout, stderr>>
       ELSE /\ stdout' = 0 /\ stderr' = 0
            /\ l_pc' = "toc"
            /\ l_out' = IF l_output THEN l_out \o <<"stdout", "stderr">> ELSE l_out
    /\ UNCHANGED <<l_exe, l_output, l_fs, l_mkdir_ok, l_fault, l_started,
                   l_command, l_cwd, l_cwd_state, l_mkdirs, solver_pc, solver_script>>
    /\ UNCHANGED not_l

\* lines 126-128
launch_toc ==
    /\ l_pc = "toc"
    /\ l_out' = Append(l_out, "time")
    /\ l_pc' = "done"
    /\ UNCHANGED <<l_exe, l_output, l_fs, l_mkdir_ok, l_fault, l_started,
                   l_command, l_cwd, l_cwd_state, l_mkdirs, solver_pc, solver_script,
                   stdout, stderr>>
    /\ UNCHANGED not_l

\* the solver writes its next line; the write blocks while the pipe is full
solver_write ==
    /\ solver_pc = "running"
    /\ solver_script # <<>>
    /\ \/ Head(solver_script) = "out" /\ stdout < PipeCap
          /\ stdout' = stdout + 1 /\ UNCHANGED stderr
       \/ Head(solver_script) = "err" /\ stderr < PipeCap
          /\ stderr' = stderr + 1 /\ UNCHANGED stdout
    /\ solver_script' = Tail(solver_script)
    /\ UNCHANGED <<l_pc, l_exe, l_output, l_fs, l_mkdir_ok, l_fault, l_started,
                   l_command, l_cwd, l_cwd_state, l_mkdirs, l_out, solver_pc>>
    /\ UNCHANGED not_l

\* the solver has written everything and exits, closing both pipes
solver_exit ==
    /\ solver_pc = "running"
    /\ solver_script = <<>>
    /\ solver_pc' = "exited"
    /\ UNCHANGED <<l_pc, l_exe, l_output, l_fs, l_mkdir_ok, l_fault, l_started,
                   l_command, l_cwd, l_cwd_state, l_mkdirs, l_out, solver_script,
                   stdout, stderr>>
    /\ UNCHANGED not_l

launch_process_Next ==
    \/ launch_stat
    \/ launch_mkdir
    \/ launch_popen
    \/ launch_readline
    \/ launch_communicate
    \/ launch_toc
    \/ solver_write
    \/ solver_exit

(***************************************************************************)
(*                            input_generate                               *)
(***************************************************************************)
MaxElements == 2    \* structure.elements holds at most this many elements

TrussTypes == {"TrussElement", "TieElement", "StrutElement", "SpringElement"}

ElementTypes == {"TrussElement", "SpringElement", "BeamElement", "ShellElement"}

\* lines 52-56
Ndof(elements) ==
    IF \E k \in DOMAIN elements : elements[k] \notin TrussTypes THEN 6 ELSE 3

\* (materials written before the boundary conditions)
SectionsSwapped ==
    <<"heading", "nodes", "materials", "boundary_conditions", "elements", "steps">>

\* lines 60-65: the write_* calls in program order
Sections ==
    <<"heading", "nodes", "boundary_conditions", "materials", "elements", "steps">>

g_Idle ==
    /\ g_pc = "idle" /\ g_elements = <<>> /\ g_ndof = 0 /\ g_k = 0
    /\ g_written = <<>> /\ g_writer = "none" /\ g_fault = 0 /\ g_out = <<>>

input_generate_Init ==
    /\ g_pc = "ndof"
    /\ g_elements \in SeqsUpTo(ElementTypes, MaxElements)
    /\ g_ndof = 0 /\ g_k = 0 /\ g_written = <<>> /\ g_writer = "none"
    /\ g_fault \in 0..(Len(Sections) + 1)
    /\ g_out = <<>>

\* lines 50-56
input_generate_ndof ==
    /\ g_pc = "ndof"
    /\ g_ndof' = Ndof(g_elements)
    /\ g_pc' = "enter"
    /\ UNCHANGED <<g_elements, g_k, g_written, g_writer, g_fault, g_out>>
    /\ UNCHANGED not_g

\* line 58: Writer(...) and its __enter__, which raise when the file cannot
\* be opened
input_generate_enter ==
    /\ g_pc = "enter"
    /\ IF g_fault = Len(Sections) + 1
       THEN g_pc' = "raised" /\ g_writer' = g_writer
       ELSE g_pc' = "write" /\ g_writer' = "open"
    /\ UNCHANGED <<g_elements, g_ndof, g_k, g_written, g_fault, g_out>>
    /\ UNCHANGED not_g

\* lines 60-65: the next write_* call; when it raises, the with statement
\* closes the writer and the exception leaves input_generate
input_generate_write ==
    /\ g_pc = "write"
    /\ g_k < Len(Sections)
    /\ IF g_fault = g_k + 1
       THEN /\ g_pc' = "raised" /\ g_writer' = "closed"
            /\ UNCHANGED <<g_k, g_written>>
       ELSE /\ g_written' = Append(g_written, Sections[g_k + 1])
            /\ g_k' = g_k + 1
            /\ UNCHANGED <<g_pc, g_writer>>
    /\ UNCHANGED <<g_elements, g_ndof, g_fault, g_out>>
    /\ UNCHANGED not_g

\* end of the with block: the writer's __exit__
input_generate_exit ==
    /\ g_pc = "write"
    /\ g_k = Len(Sections)
    /\ g_writer' = "closed"
    /\ g_pc' = "print"
    /\ UNCHANGED <<g_elements, g_ndof, g_k, g_written, g_fault, g_out>>
    /\ UNCHANGED not_g

\* line 67
input_generate_print ==
    /\ g_pc = "print"
    /\ g_out' = Append(g_out, "generated")
    /\ g_pc' = "done"
    /\ UNCHANGED <<g_elements, g_ndof, g_k, g_written, g_writer, g_fault>>
    /\ UNCHANGED not_g

input_generate_Next ==
    \/ input_generate_ndof
    \/ input_generate_enter
    \/ input_generate_write
    \/ input_generate_exit
    \/ input_generate_print

(***************************************************************************)
(*                           plot_mode_shapes                              *)
(***************************************************************************)
MaxModes == 2       \* the frequencies dict holds at most this many modes

\* A str-or-None argument is [isnone, chars]
NoneStr == [isnone |-> TRUE, chars |-> <<>>]

StrOf(chars) == [isnone |-> FALSE, chars |-> chars]

\* the keys a frequencies dict can hold
ModeKeys == {1, 2, 12}

Digits == <<"0", "1", "2", "3", "4", "5", "6", "7", "8", "9">>

\* str(fk) for fk >= 0
RECURSIVE str(_)
str(n) == IF n < 10 THEN <<Digits[n + 1]>>
          ELSE str(n \div 10) \o <<Digits[(n % 10) + 1]>>

\* line 313: layer + str(fk), a TypeError when layer is None
LayerK(layer, fk) ==
    IF layer.isnone THEN [exc |-> "TypeError", chars |-> <<>>]
    ELSE [exc |-> None, chars |-> layer.chars \o str(fk)]

m_Idle ==
    /\ m_pc = "idle" /\ m_layer = NoneStr /\ m_scale = 1 /\ m_freq = <<>>
    /\ m_i = 0 /\ m_calls = <<>>

plot_mode_shapes_Init ==
    /\ m_pc = "loop"
    /\ m_layer \in {NoneStr, StrOf(<<>>), StrOf(<<"m">>), StrOf(<<"m", "1">>)}
    /\ m_scale \in {1, 5}
    /\ m_freq \in {f \in SeqsUpTo(ModeKeys, MaxModes) :
                     \A i, j \in DOMAIN f : i # j => f[i] # f[j]}
    /\ m_i = 0 /\ m_calls = <<>>

\* lines 312-314, one pass of `for fk in freq`
plot_mode_shapes_mode ==
    /\ m_pc = "loop"
    /\ m_i < Len(m_freq)
    /\ LET fk     == m_freq[m_i + 1]
           layerk == LayerK(m_layer, fk)
       IN  IF layerk.exc # None
           THEN m_pc' = "raised" /\ UNCHANGED <<m_i, m_calls>>
           ELSE /\ m_calls' = Append(m_calls, [field |-> "um", mode |-> fk,
                                              layer |-> layerk.chars,
                                              scale |-> m_scale])
                /\ m_i' = m_i + 1
                /\ m_pc' = m_pc
    /\ UNCHANGED <<m_layer, m_scale, m_freq>>
    /\ UNCHANGED not_m

\* the loop is over
plot_mode_shapes_return ==
    /\ m_pc = "loop"
    /\ m_i = Len(m_freq)
    /\ m_pc' = "done"
    /\ UNCHANGED <<m_layer, m_scale, m_freq, m_i, m_calls>>
    /\ UNCHANGED not_m

plot_mode_shapes_Next ==
    \/ plot_mode_shapes_mode
    \/ plot_mode_shapes_return

(***************************************************************************)
(*                  The Rhino document and the Structure                   *)
(* rhinoscriptsyntax answers from the document: an object (guid) is        *)
(* [kind, pts, faces, name], with pts the point, the curve's start and end *)
(* point or the mesh's vertices, and faces the mesh's faces, each four     *)
(* 0-based vertex indices (a triangle repeats its last index).             *)
(***************************************************************************)
MaxLayers == 2      \* the `layers` list has at most this many entries

NoKey == -1         \* a node or element key that is Python None

Pt(p) == [kind |-> "point", pts |-> <<p>>, faces |-> <<>>, name |-> ""]

Crv(a, b, name) == [kind |-> "curve", pts |-> <<a, b>>, faces |-> <<>>, name |-> name]

Msh(verts, faces, name) == [kind |-> "mesh", pts |-> verts, faces |-> faces, name |-> name]

Dot == [kind |-> "other", pts |-> <<>>, faces |-> <<>>, name |-> ""]

IsPoint(guid) == guid.kind = "point"

IsCurve(guid) == guid.kind = "curve"

IsMesh(guid) == guid.kind = "mesh"

\* what rs.ObjectsByLayer(layer) can return
Contents ==
    { <<>>,
      <<Pt("p1")>>,
      <<Pt("p2"), Pt("q"), Pt("p1")>>,
      <<Pt("p1"), Crv("p1", "p2", "")>>,
      <<Crv("p2", "p1", "json"), Crv("p2", "p3", "")>>,
      <<Crv("p1", "q", "list")>>,
      <<Msh(<<"p1", "p2", "p3">>, << <<0, 1, 2, 2>> >>, "")>>,
      <<Msh(<<"p1", "p2", "p3", "p4">>, << <<0, 1, 2, 3>>, <<0, 1, 3, 3>> >>, "")>>,
      <<Msh(<<"p1", "p2", "p3", "p4">>, << <<0, 1, 2, 3>> >>, "solid")>>,
      <<Dot, Msh(<<"p1", "p2", "p1">>, << <<0, 1, 2, 0>>, <<1, 0, 2, 0>> >>, "")>> }

\* layer names, character by character: 'a', 'b', 'a::b', 'c::a::b', 'a:b',
\* 'a::', 'a:::b'
LayerNames ==
    { <<"a">>, <<"b">>, <<"a", ":", ":", "b">>,
      <<"c", ":", ":", "a", ":", ":", "b">>, <<"a", ":", "b">>,
      <<"a", ":", ":">>, <<"a", ":", ":", ":", "b">> }

\* A `layers` argument is [isstr, str, list]: a single name or a list of names
LayersArgs(names) ==
    {[isstr |-> TRUE, str |-> n, list |-> <<>>] : n \in names}
    \cup {[isstr |-> FALSE, str |-> <<>>, list |-> l] : l \in SeqsUpTo(names, MaxLayers)}

\* rhino.py lines 149-150 and 198-199
LayersList(arg) == IF arg.isstr THEN <<arg.str>> ELSE arg.list

\* position of the first '::' of s, or 0
FirstSep(s) ==
    IF \E i \in 1..(Len(s) - 1) : s[i] = ":" /\ s[i + 1] = ":"
    THEN CHOOSE i \in 1..(Len(s) - 1) :
           /\ s[i] = ":" /\ s[i + 1] = ":"
           /\ \A j \in 1..(i - 1) : ~(s[j] = ":" /\ s[j + 1] = ":")
    ELSE 0

\* s.split('::')
RECURSIVE Split(_)
Split(s) ==
    IF FirstSep(s) = 0 THEN <<s>>
    ELSE <<SubSeq(s, 1, FirstSep(s) - 1)>> \o Split(SubSeq(s, FirstSep(s) + 2, Len(s)))

\* (the first component instead of the last)
LayerSetNameFirst(layer) == IF FirstSep(layer) # 0 THEN Split(layer)[1] ELSE layer

\* line 205: layer.split('::')[-1] if '::' in layer else layer
LayerSetName(layer) == IF FirstSep(layer) # 0 THEN Last(Split(layer)) ELSE layer

\* structure.check_node_exists(xyz): the key of the node at xyz, or None
check_node_exists(nodes, xyz) ==
    IF \E k \in DOMAIN nodes : nodes[k] = xyz
    THEN (CHOOSE k \in DOMAIN nodes : nodes[k] = xyz /\ \A j \in 1..(k - 1) : nodes[j] # xyz) - 1
    ELSE NoKey

\* structure.check_element_exists(nodes): the key of the element on these
\* nodes, or None
check_element_exists(elements, nodes) ==
    IF NoKey \notin Range(nodes) /\ \E k \in DOMAIN elements : Range(elements[k]) = Range(nodes)
    THEN (CHOOSE k \in DOMAIN elements :
            /\ Range(elements[k]) = Range(nodes)
            /\ \A j \in 1..(k - 1) : Range(elements[j]) # Range(nodes)) - 1
    ELSE NoKey

\* structure.add_set(name, type, selection, explode)
add_set(st_sets, name, type, selection, explode) ==
    DictSet(st_sets, name, [type |-> type, selection |-> selection, explode |-> explode])

\* [f(x) for x in seq] where f yields a list, concatenated
RECURSIVE Concat(_)
Concat(ss) == IF ss = <<>> THEN <<>> ELSE Head(ss) \o Concat(Tail(ss))

\* the structures add_sets_from_layers is called on
Structures ==
    { [nodes |-> <<>>, elements |-> <<>>],
      [nodes |-> <<"p1", "p2">>, elements |-> << <<0, 1>> >>],
      [nodes |-> <<"p1", "p2", "p3", "p4">>,
       elements |-> << <<0, 1>>, <<0, 1, 2>>, <<0, 1, 2, 3>>, <<0, 1, 3>> >>] }

(***************************************************************************)
(*          add_node_set, add_element_set, add_sets_from_layers            *)
(***************************************************************************)
\* (every lookup result is appended, None too)
NodeSelectionKeepNone(st, guids) ==
    [k \in DOMAIN guids |-> check_node_exists(st.nodes, guids[k].pts[1])]

\* lines 122-128: the nodes of add_node_set
NodeSelection(st, guids) ==
    SelectSeq([k \in DOMAIN guids |-> check_node_exists(st.nodes, guids[k].pts[1])],
              LAMBDA node : node # NoKey)

\* `if element is not None: elements.append(element)`
AppendIfFound(e) == IF e # NoKey THEN <<e>> ELSE <<>>

\* lines 99-105: the element of one face of a mesh
FaceElement(st, vertices, face) ==
    LET nodes == [i \in 1..Len(face) |-> check_node_exists(st.nodes, vertices[face[i] + 1])]
        nn    == IF nodes[3] = nodes[4] THEN SubSeq(nodes, 1, Len(nodes) - 1) ELSE nodes
    IN  AppendIfFound(check_element_exists(st.elements, nn))

\* lines 81-105: the elements one guid adds to the selection
GuidElements(st, guid) ==
    (IF IsCurve(guid)
     THEN LET sp == check_node_exists(st.nodes, guid.pts[1])
              ep == check_node_exists(st.nodes, guid.pts[2])
          IN  AppendIfFound(check_element_exists(st.elements, <<sp, ep>>))
     ELSE <<>>)
    \o
    (IF IsMesh(guid)
     THEN IF guid.name = "solid"
          THEN LET nodes == [i \in DOMAIN guid.pts |-> check_node_exists(st.nodes, guid.pts[i])]
               IN  AppendIfFound(check_element_exists(st.elements, nodes))
          ELSE Concat([f \in DOMAIN guid.faces |-> FaceElement(st, guid.pts, guid.faces[f])])
     ELSE <<>>)

\* lines 78-105: the elements of add_element_set
ElementSelection(st, guids) ==
    Concat([k \in DOMAIN guids |-> GuidElements(st, guids[k])])

\* lines 110-130
add_node_set(st_sets, st, guids, name, explode) ==
    add_set(st_sets, name, "node", NodeSelection(st, guids), explode)

\* lines 63-107
add_element_set(st_sets, st, guids, name, explode) ==
    add_set(st_sets, name, "element", ElementSelection(st, guids), explode)

\* lines 204, 207: all(check_points)
AllPoints(guids) == \A k \in DOMAIN guids : IsPoint(guids[k])

s_Idle ==
    /\ s_pc = "idle" /\ s_arg = 0 /\ s_layers = <<>> /\ s_explode = FALSE
    /\ s_struct = 0 /\ s_i = 0 /\ sets = EmptyDict /\ s_ncalls = 0
    /\ s_nonempty = 0 /\ s_last = 0 /\ s_prev = EmptyDict

add_sets_from_layers_Init ==
    /\ s_pc = "start"
    /\ s_arg \in LayersArgs(LayerNames)
    /\ s_layers = <<>>
    /\ s_explode \in BOOLEAN
    /\ s_struct \in Structures
    /\ s_i = 0 /\ sets = EmptyDict /\ s_ncalls = 0 /\ s_nonempty = 0
    /\ s_last = [layer |-> <<>>, guids |-> <<>>]
    /\ s_prev = EmptyDict

\* lines 198-199
add_sets_from_layers_begin ==
    /\ s_pc = "start"
    /\ s_layers' = LayersList(s_arg)
    /\ s_pc' = "loop"
    /\ UNCHANGED <<s_arg, s_explode, s_struct, s_i, sets, s_ncalls, s_nonempty,
                   s_last, s_prev>>
    /\ UNCHANGED not_s

\* lines 201-211, one pass of `for layer in layers`, with guids what
\* rs.ObjectsByLayer(layer) returns
add_sets_from_layers_layer(guids) ==
    /\ s_pc = "loop"
    /\ s_i < Len(s_layers)
    /\ LET layer == s_layers[s_i + 1]
           name  == LayerSetName(layer)
       IN  /\ s_last' = [layer |-> layer, guids |-> guids]
           /\ s_prev' = sets
           /\ IF guids # <<>>
              THEN /\ sets' = IF AllPoints(guids)
                              THEN add_node_set(sets, s_struct, guids, name, s_explode)
                              ELSE add_element_set(sets, s_struct, guids, name, s_explode)
                   /\ s_ncalls' = s_ncalls + 1
                   /\ s_nonempty' = s_nonempty + 1
              ELSE UNCHANGED <<sets, s_ncalls, s_nonempty>>
    /\ s_i' = s_i + 1
    /\ UNCHANGED <<s_pc, s_arg, s_layers, s_explode, s_struct>>
    /\ UNCHANGED not_s

\* the loop is over
add_sets_from_layers_return ==
    /\ s_pc = "loop"
    /\ s_i = Len(s_layers)
    /\ s_pc' = "done"
    /\ UNCHANGED <<s_arg, s_layers, s_explode, s_struct, s_i, sets, s_ncalls,
                   s_nonempty, s_last, s_prev>>
    /\ UNCHANGED not_s

add_sets_from_layers_Next ==
    \/ add_sets_from_layers_begin
    \/ \E guids \in Contents : add_sets_from_layers_layer(guids)
    \/ add_sets_from_layers_return

(***************************************************************************)
(*                    add_nodes_elements_from_layers                       *)
(***************************************************************************)
\* what rs.ObjectsByLayer(layer) can return here
AddContents ==
    { <<>>,
      <<Pt("p1")>>,
      <<Crv("p1", "p2", "json"), Crv("p2", "p3", "")>>,
      <<Crv("p1", "p1", "list")>>,
      <<Msh(<<"p1", "p2", "p3", "p4">>, << <<0, 1, 2, 3>>, <<0, 1, 3, 3>> >>, "")>>,
      <<Dot, Msh(<<"p1", "p2", "p1">>, << <<0, 1, 2, 0>> >>, "")>>,
      <<Crv("p3", "p4", ""), Msh(<<"p1", "p2", "p3">>, << <<0, 1, 2, 2>> >>, "solid")>> }

\* (a list of solid types that lacks the tetrahedron)
SolidsShort == {"HexahedronElement", "SolidElement", "PentahedronElement"}

\* line 147
Solids == {"HexahedronElement", "TetrahedronElement", "SolidElement", "PentahedronElement"}

\* structure.add_node(xyz): the key of the node at xyz, added when new.
\* [nodes, key]
add_node(nodes, xyz) ==
    IF check_node_exists(nodes, xyz) # NoKey
    THEN [nodes |-> nodes, key |-> check_node_exists(nodes, xyz)]
    ELSE [nodes |-> Append(nodes, xyz), key |-> Len(nodes)]

\* [structure.add_node(vertex) for vertex in vertices].  [nodes, keys]
RECURSIVE add_nodes(_, _)
add_nodes(nodes, vertices) ==
    IF vertices = <<>> THEN [nodes |-> nodes, keys |-> <<>>]
    ELSE LET first == add_node(nodes, Head(vertices))
             rest  == add_nodes(first.nodes, Tail(vertices))
         IN  [nodes |-> rest.nodes, keys |-> <<first.key>> \o rest.keys]

\* structure.add_element(nodes, type, acoustic, thermal, axes)
add_element(elems, nodes, type, flags, axes) ==
    Append(elems, [nodes |-> nodes, type |-> type, acoustic |-> flags[1],
                   thermal |-> flags[2], axes |-> axes])

\* lines 157-163: the axes read from the object's name; a name that is not
\* the JSON of a dict gives {}
Axes(name) ==
    IF name = "json" THEN [kind |-> "dict", ex |-> "ex", ey |-> None]
    ELSE [kind |-> "empty", ex |-> None, ey |-> None]

\* the axes={} default of add_element
DefaultAxes == [kind |-> "default", ex |-> None, ey |-> None]

\* lines 177-179: the nodes of one face
FaceNodes(nodes, vertices, face) ==
    LET nn == [i \in 1..Len(face) |-> check_node_exists(nodes, vertices[face[i] + 1])]
    IN  IF nn[Len(nn)] = nn[Len(nn) - 1] THEN SubSeq(nn, 1, Len(nn) - 1) ELSE nn

\* lines 176-180: one element per face
RECURSIVE add_faces(_, _, _, _, _, _)
add_faces(elems, nodes, vertices, faces, type, flags) ==
    IF faces = <<>> THEN elems
    ELSE add_faces(add_element(elems, FaceNodes(nodes, vertices, Head(faces)),
                               type, flags, DefaultAxes),
                   nodes, vertices, Tail(faces), type, flags)

\* lines 156-180: one object of a layer.  [nodes, elems]
AddGuid(nodes, elems, guid, line_type, mesh_type, flags) ==
    IF Truthy(line_type) /\ IsCurve(guid)
    THEN LET sp == add_node(nodes, guid.pts[1])
             ep == add_node(sp.nodes, guid.pts[2])
         IN  [nodes |-> ep.nodes,
              elems |-> add_element(elems, <<sp.key, ep.key>>, line_type, flags,
                                    Axes(guid.name))]
    ELSE IF Truthy(mesh_type) /\ IsMesh(guid)
    THEN LET added == add_nodes(nodes, guid.pts)
         IN  IF mesh_type \in Solids
             THEN [nodes |-> added.nodes,
                   elems |-> add_element(elems, added.keys, mesh_type, flags, DefaultAxes)]
             ELSE [nodes |-> added.nodes,
                   elems |-> add_faces(elems, added.nodes, guid.pts, guid.faces,
                                       mesh_type, flags)]
    ELSE [nodes |-> nodes, elems |-> elems]

a_Idle ==
    /\ a_pc = "idle" /\ a_arg = 0 /\ a_layers = <<>> /\ a_line_type = None
    /\ a_mesh_type = None /\ a_flags = <<FALSE, FALSE>> /\ a_li = 0
    /\ a_guids = <<>> /\ a_gi = 0 /\ a_nodes = <<>> /\ a_elems = <<>>
    /\ a_prev = 0

add_nodes_elements_from_layers_Init ==
    /\ a_pc = "start"
    /\ a_arg \in LayersArgs({<<"a">>})
    /\ a_layers = <<>>
    /\ a_line_type \in {None, "", "BeamElement"}
    /\ a_mesh_type \in {None, "ShellElement", "TetrahedronElement"}
    /\ a_flags \in {<<TRUE, FALSE>>, <<FALSE, TRUE>>}
    /\ a_li = 0 /\ a_guids = <<>> /\ a_gi = 0
    /\ a_nodes \in {<<>>, <<"p3", "p1">>}
    /\ a_elems = <<>>
    /\ a_prev = [nodes |-> a_nodes, elems |-> <<>>]

\* lines 149-150
add_nodes_elements_begin ==
    /\ a_pc = "start"
    /\ a_layers' = LayersList(a_arg)
    /\ a_pc' = "layers"
    /\ UNCHANGED <<a_arg, a_line_type, a_mesh_type, a_flags, a_li, a_guids, a_gi,
                   a_nodes, a_elems, a_prev>>
    /\ UNCHANGED not_a

\* lines 152-153: the next layer, with guids what rs.ObjectsByLayer returns
add_nodes_elements_layer(guids) ==
    /\ a_pc = "layers"
    /\ a_li < Len(a_layers)
    /\ a_li' = a_li + 1
    /\ a_guids' = guids
    /\ a_gi' = 0
    /\ a_pc' = IF guids = <<>> THEN "layers" ELSE "guids"
    /\ UNCHANGED <<a_arg, a_layers, a_line_type, a_mesh_type, a_flags, a_nodes,
                   a_elems, a_prev>>
    /\ UNCHANGED not_a

\* lines 154-180, one pass of `for guid in guids`
add_nodes_elements_guid ==
    /\ a_pc = "guids"
    /\ LET r == AddGuid(a_nodes, a_elems, a_guids[a_gi + 1], a_line_type,
                        a_mesh_type, a_flags)
       IN  /\ a_nodes' = r.nodes
           /\ a_elems' = r.elems
    /\ a_prev' = [nodes |-> a_nodes, elems |-> a_elems]
    /\ a_gi' = a_gi + 1
    /\ a_pc' = IF a_gi + 1 = Len(a_guids) THEN "layers" ELSE "guids"
    /\ UNCHANGED <<a_arg, a_layers, a_line_type, a_mesh_type, a_flags, a_li, a_guids>>
    /\ UNCHANGED not_a

\* the loop over the layers is over
add_nodes_elements_return ==
    /\ a_pc = "layers"
    /\ a_li = Len(a_layers)
    /\ a_pc' = "done"
    /\ UNCHANGED <<a_arg, a_layers, a_line_type, a_mesh_type, a_flags, a_li,
                   a_guids, a_gi, a_nodes, a_elems, a_prev>>
    /\ UNCHANGED not_a

add_nodes_elements_from_layers_Next ==
    \/ add_nodes_elements_begin
    \/ \E guids \in AddContents : add_nodes_elements_layer(guids)
    \/ add_nodes_elements_guid
    \/ add_nodes_elements_return

InitExtract == extract_data_Init /\ p_Idle /\ l_Idle /\ g_Idle /\ m_Idle /\ s_Idle /\ a_Idle

SpecExtract == InitExtract /\ [][extract_data_Next]_vars

InitParse == nodal_try_Init /\ x_Idle /\ l_Idle /\ g_Idle /\ m_Idle /\ s_Idle /\ a_Idle

NextParse == nodal_try

InitLaunch == launch_process_Init /\ x_Idle /\ p_Idle /\ g_Idle /\ m_Idle /\ s_Idle /\ a_Idle

SpecLaunch == InitLaunch /\ [][launch_process_Next]_vars

InitGenerate == input_generate_Init /\ x_Idle /\ p_Idle /\ l_Idle /\ m_Idle /\ s_Idle /\ a_Idle

SpecGenerate == InitGenerate /\ [][input_generate_Next]_vars

InitPlot == plot_mode_shapes_Init /\ x_Idle /\ p_Idle /\ l_Idle /\ g_Idle /\ s_Idle /\ a_Idle

SpecPlot == InitPlot /\ [][plot_mode_shapes_Next]_vars

InitSets == add_sets_from_layers_Init /\ x_Idle /\ p_Idle /\ l_Idle /\ g_Idle /\ m_Idle /\ a_Idle

SpecSets == InitSets /\ [][add_sets_from_layers_Next]_vars

InitAdd == add_nodes_elements_from_layers_Init /\ x_Idle /\ p_Idle /\ l_Idle /\ g_Idle /\ m_Idle /\ s_Idle

SpecAdd == InitAdd /\ [][add_nodes_elements_from_layers_Next]_vars

SpecParse == InitParse /\ [][NextParse]_vars

\* ------------------------------------------------- claims on extract_data

\* C1: a requested field whose .out file (or, for 'sf', whose
\* truss_ekeys.json) cannot be opened raises nothing out of extract_data:
\* the entry counts as processed, every later entry of `fields` is processed
\* too, and the call returns after one message per nodal or 'sf' entry.
C1_MissingFileDoesNotCrash ==
    /\ x_pc # "raised"
    /\ \A k \in DOMAIN x_exc : x_exc[k] = "IOError" => x_i >= k
    /\ x_pc \in {"fields", "done"} => Len(x_exc) = x_i
    /\ x_pc = "done" =>
          /\ x_i = Len(x_fields)
          /\ Len(x_out) = 1 + Cardinality({k \in DOMAIN x_fields :
                                             x_fields[k] \in NodalFields \cup {"sf"}})

\* a finished call in which a nodal field's file was missing and a later
\* nodal field was loaded
C1_Witness ==
    /\ x_pc = "done"
    /\ \E j, k \in DOMAIN x_fields :
          /\ j < k
          /\ x_fields[j] \in NodalFields /\ x_exc[j] = "IOError"
          /\ x_fields[k] \in NodalFields /\ x_exc[k] = None
          /\ x_fields[k] # x_fields[j]
          /\ <<x_fields[k], "x">> \in DOMAIN nodal
          /\ <<x_fields[j], "x">> \notin DOMAIN nodal

\* the file of the try block is readable and its last line holds exactly
\* 3 * node_count values after its first token
C9_Pre ==
    /\ p_file.exists
    /\ Len(p_file.lines) >= 1
    /\ LET line == Last(p_file.lines) IN
          /\ Len(line) = 3 * p_n + 1
          /\ \A k \in 2..Len(line) : line[k].num

\* C9: for such a file the try block ends without exception, and
\* nodal[f+'x'], nodal[f+'y'], nodal[f+'z'], nodal[f+'m'] have exactly the keys
\* 0..n-1, node i holding the last line's values at positions 3i, 3i+1, 3i+2
\* (counted after the first token) and the magnitude of those three.
C9_LastLineByNode ==
    (p_pc = "done" /\ C9_Pre) =>
        LET line == Last(p_file.lines)
            nd   == p_res.nodal
            f    == p_field
        IN  /\ p_res.exc = None
            /\ \A c \in {"x", "y", "z", "m"} :
                  /\ <<f, c>> \in DOMAIN nd
                  /\ DOMAIN nd[<<f, c>>] = 0..(p_n - 1)
            /\ \A i \in 0..(p_n - 1) :
                  LET u == line[3 * i + 2].val
                      v == line[3 * i + 3].val
                      w == line[3 * i + 4].val
                      m == nd[<<f, "m">>][i]
                  IN  /\ nd[<<f, "x">>][i] = u
                      /\ nd[<<f, "y">>][i] = v
                      /\ nd[<<f, "z">>][i] = w
                      /\ m >= 0
                      /\ m * m <= u * u + v * v + w * w
                      /\ u * u + v * v + w * w < (m + 1) * (m + 1)

\* a two-line file with 3 * MaxNodes values on its last line, parsed
C9_Witness ==
    /\ p_pc = "done" /\ C9_Pre
    /\ p_n = MaxNodes
    /\ Len(p_file.lines) = 2
    /\ p_file.lines[1] # p_file.lines[2]
    /\ <<p_field, "m">> \in DOMAIN p_res.nodal

\* ----------------------------------------------- claims on launch_process

\* C2: no exception leaves launch_process, and a call that has returned has
\* printed exactly one of the analysis time and 'analysis failed'; a call
\* still running has printed neither.
C2_NeverPropagates ==
    /\ l_pc # "raised"
    /\ l_pc = "done" =>
          Cardinality({k \in DOMAIN l_out : l_out[k] \in {"time", "failed"}}) = 1
    /\ l_pc # "done" => \A k \in DOMAIN l_out : l_out[k] \notin {"time", "failed"}

\* a call that returned 'failed' because reading the solver's output failed
C2_Witness ==
    /\ l_pc = "done"
    /\ l_fault \in {"readline", "communicate"}
    /\ l_started = 1
    /\ Last(l_out) = "failed"

\* C7: the solver is started at most once, with '<exe> <path><name>.tcl'
\* (exe the caller's value when given, else 'C:/OpenSees.exe') and cwd
\* <path><name>/, which is a directory when the solver starts; an absent
\* directory that can be created is created before; the solver is not
\* started when the directory could not be created; a run that reports its
\* time has started the solver exactly once.
C7_StartedOnceInTemp ==
    /\ l_started <= 1
    /\ l_mkdirs <= 1
    /\ l_started = 1 =>
          /\ l_command = [exe |-> IF l_exe \in {None, ""} THEN "C:/OpenSees.exe" ELSE l_exe,
                          arg |-> "<path><name>.tcl"]
          /\ l_cwd = "<path><name>/"
          /\ l_cwd_state = "dir"
    /\ (l_mkdirs = 1 /\ l_mkdir_ok /\ l_fs # "file") => l_fs = "dir"
    /\ (l_mkdirs = 1 /\ l_fs # "dir") => l_started = 0
    /\ (l_pc = "done" /\ Last(l_out) = "time") => l_started = 1

\* a completed run whose directory was absent and was created first, with
\* the default executable
C7_Witness ==
    /\ l_pc = "done" /\ Last(l_out) = "time"
    /\ l_mkdirs = 1 /\ l_started = 1
    /\ l_exe = None /\ l_command.exe = DefaultExe

\* C10: the solver is never blocked writing to a full stderr pipe while
\* launch_process is blocked in readline on an empty stdout pipe.
C10_NoPipeDeadlock ==
    ~ /\ l_pc = "readline" /\ l_fault # "readline" /\ stdout = 0
      /\ solver_pc = "running" /\ solver_script # <<>>
      /\ Head(solver_script) = "err" /\ stderr = PipeCap

\* ----------------------------------------------- claims on input_generate

\* C8: the .tcl file always holds a prefix of heading, nodes, boundary
\* conditions, materials, elements, steps, each at most once; the 'input file
\* generated' message is printed only once all six are written and the
\* writer is closed, and a call that returns has printed it.
C8_SectionsInOrder ==
    /\ \E k \in 0..6 :
          g_written = SubSeq(<<"heading", "nodes", "boundary_conditions",
                               "materials", "elements", "steps">>, 1, k)
    /\ g_out # <<>> => (Len(g_written) = 6 /\ g_writer = "closed")
    /\ g_pc = "done" => g_out = <<"generated">>
    /\ g_pc = "raised" => g_out = <<>>

\* a call that returned, for a structure with a beam or shell element
C8_Witness ==
    /\ g_pc = "done" /\ g_ndof = 6
    /\ Len(g_written) = 6 /\ g_out = <<"generated">>

\* --------------------------------------------- claims on plot_mode_shapes

\* C5: for every value of `layer`, None included, plot_mode_shapes raises
\* nothing and calls plot_data exactly once per key fk of the frequencies,
\* with field 'um', mode fk and layer = `layer` followed by str(fk).
C5_EveryModePlottedOnce ==
    /\ m_pc # "raised"
    /\ m_pc = "done" =>
          /\ Len(m_calls) = Len(m_freq)
          /\ \A k \in DOMAIN m_calls :
                /\ m_calls[k].field = "um"
                /\ m_calls[k].mode = m_freq[k]
                /\ m_calls[k].layer = m_layer.chars \o str(m_freq[k])

\* ----------------------------------------- claims on add_sets_from_layers

\* t has no '::' in it
NoSep(t) == \A i \in 1..(Len(t) - 1) : ~(t[i] = ":" /\ t[i + 1] = ":")

\* t is the part of layer after a '::' (or all of it) and holds no '::'
IsLastComponent(t, layer) ==
    /\ NoSep(t)
    /\ \E k \in 0..Len(layer) :
          /\ t = SubSeq(layer, k + 1, Len(layer))
          /\ k = 0 \/ (k >= 2 /\ layer[k - 1] = ":" /\ layer[k] = ":")

\* the last pass of the loop left structure.sets as it was but for key name
OnlyKeyChanged(name) ==
    /\ name \in DOMAIN sets
    /\ DOMAIN sets = DOMAIN s_prev \cup {name}
    /\ \A k \in DOMAIN s_prev : k # name => sets[k] = s_prev[k]

NodesAt(guids) ==
    {k - 1 : k \in {j \in DOMAIN s_struct.nodes :
                      \E g \in DOMAIN guids : IsPoint(guids[g])
                                               /\ guids[g].pts[1] = s_struct.nodes[j]}}

\* element key e lies on points of the non-point object guid
ElementOn(e, guid) ==
    /\ ~IsPoint(guid)
    /\ \A i \in DOMAIN s_struct.elements[e + 1] :
          s_struct.nodes[s_struct.elements[e + 1][i] + 1] \in Range(guid.pts)

\* C4: after the pass over a non-empty layer, the set of that layer is a
\* node set holding exactly the nodes found at the layer's points when all
\* its objects are points, and an element set otherwise, holding only keys
\* of elements of the structure that lie on a non-point object of the layer
\* and every element that lies on the two ends of one of its curves; no
\* selection holds None.
C4_SetTypeFromContents ==
    (s_i > 0 /\ s_last.guids # <<>>) =>
        \E name \in DOMAIN sets :
          /\ IsLastComponent(name, s_last.layer)
          /\ LET set   == sets[name]
                 guids == s_last.guids
             IN  /\ NoKey \notin Range(set.selection)
                 /\ set.explode = s_explode
                 /\ IF \A g \in DOMAIN guids : guids[g].kind = "point"
                    THEN /\ set.type = "node"
                         /\ Range(set.selection) = NodesAt(guids)
                         /\ Len(set.selection) =
                              Cardinality({g \in DOMAIN guids :
                                             guids[g].pts[1] \in Range(s_struct.nodes)})
                    ELSE /\ set.type = "element"
                         /\ \A e \in Range(set.selection) :
                               /\ e \in 0..(Len(s_struct.elements) - 1)
                               /\ \E g \in DOMAIN guids : ElementOn(e, guids[g])
                         /\ \A g \in DOMAIN guids, e \in 0..(Len(s_struct.elements) - 1) :
                               (guids[g].kind = "curve"
                                /\ {s_struct.nodes[n + 1] : n \in Range(s_struct.elements[e + 1])}
                                     = Range(guids[g].pts))
                               => e \in Range(set.selection)

\* a layer of three points, one of them at no node of the structure, gave a
\* node set of two nodes; and before it a mixed layer gave an element set
C4_Witness ==
    /\ s_i = 2
    /\ Len(s_last.guids) = 3 /\ \A g \in DOMAIN s_last.guids : IsPoint(s_last.guids[g])
    /\ \E name \in DOMAIN sets : sets[name].type = "node" /\ Len(sets[name].selection) = 2
    /\ \E name \in DOMAIN sets : sets[name].type = "element" /\ sets[name].selection # <<>>

\* ------------------------------- claims on add_nodes_elements_from_layers

\* the xyz of node key k
XyzOf(k) == a_nodes[k + 1]

\* el is an element of the given type on exactly the points pts, in order,
\* with the call's acoustic and thermal flags
ElementAt(el, type, pts) ==
    /\ el.type = type
    /\ el.acoustic = a_flags[1] /\ el.thermal = a_flags[2]
    /\ Len(el.nodes) = Len(pts)
    /\ \A i \in DOMAIN pts : el.nodes[i] \in 0..(Len(a_nodes) - 1) /\ XyzOf(el.nodes[i]) = pts[i]

\* C6: the pass over one object keeps the nodes and elements there were and
\* adds: for a curve with a line_type, one element of that type on its start
\* and end point; for a mesh with a solid mesh_type, one element on all its
\* vertices; for a mesh with another mesh_type, one element per face, on
\* three nodes when the face's last two vertices are at the same node and on
\* all four otherwise; for anything else neither a node nor an element.
C6_ElementsPerObject ==
    (a_gi > 0) =>
        LET guid == a_guids[a_gi]
            old  == Len(a_prev.elems)
            new  == SubSeq(a_elems, old + 1, Len(a_elems))
        IN  /\ a_prev.elems = SubSeq(a_elems, 1, old)
            /\ a_prev.nodes = SubSeq(a_nodes, 1, Len(a_prev.nodes))
            /\ \A i, j \in DOMAIN a_nodes : a_nodes[i] = a_nodes[j] => i = j
            /\ IF guid.kind = "curve" /\ a_line_type \notin {None, ""}
               THEN /\ Len(new) = 1
                    /\ ElementAt(new[1], a_line_type, <<guid.pts[1], guid.pts[2]>>)
               ELSE IF guid.kind = "mesh" /\ a_mesh_type \notin {None, ""}
               THEN IF a_mesh_type \in {"HexahedronElement", "TetrahedronElement",
                                        "SolidElement", "PentahedronElement"}
                    THEN /\ Len(new) = 1
                         /\ ElementAt(new[1], a_mesh_type, guid.pts)
                    ELSE /\ Len(new) = Len(guid.faces)
                         /\ \A f \in DOMAIN guid.faces :
                               LET ps == [i \in 1..4 |-> guid.pts[guid.faces[f][i] + 1]]
                               IN  ElementAt(new[f], a_mesh_type,
                                             IF ps[3] = ps[4] THEN SubSeq(ps, 1, 3) ELSE ps)
               ELSE a_nodes = a_prev.nodes /\ a_elems = a_prev.elems

\* a call that added a two-node beam, a three-node shell and a four-node
\* shell
C6_Witness ==
    /\ a_pc = "done"
    /\ \E e \in DOMAIN a_elems : a_elems[e].type = "BeamElement" /\ Len(a_elems[e].nodes) = 2
    /\ \E e \in DOMAIN a_elems : a_elems[e].type = "ShellElement" /\ Len(a_elems[e].nodes) = 3
    /\ \E e \in DOMAIN a_elems : a_elems[e].type = "ShellElement" /\ Len(a_elems[e].nodes) = 4

====
